---- MODULE Spec2Model ----
(***************************************************************************)
(* Temperature harvesting through the lm_sensors command line tool.        *)
(*                                                                         *)
(*   src/src/data_collection/temperature.rs             strategy selection,*)
(*                                                      TempHarvest, units *)
(*   src/src/data_collection/temperature/lm_sensors.rs  `sensors -u`       *)
(*                                                      invocation, parser,*)
(*                                                      friendly names     *)
(*                                                                         *)
(* Text is modelled as a sequence of one-character strings; the byte 0xFF  *)
(* (never valid in UTF-8) is the element "0xFF".  An f32 is modelled as a  *)
(* record [cls, centi]: cls is "finite", "inf", "-inf" or "nan", and centi *)
(* is the finite value in hundredths (fixed point).                        *)
(***************************************************************************)
EXTENDS Integers, Sequences, FiniteSets, TLC

\* ------------------------------------------------------------------ bounds

\* Longest free-form input (in lines) given to the parser.
MaxLines == 4

\* Longest well-formed tool output (in lines).
MaxOutLines == 10

\* Most name parts concatenated into a device name for format_friendly_names.
MaxParts == 2

\* ------------------------------------------------------- text primitives

NL == "\n"
BadByte == "0xFF"

\* str::contains(pat)
Contains(s, pat) ==
    \E i \in 0..(Len(s) - Len(pat)) : SubSeq(s, i + 1, i + Len(pat)) = pat

\* char::is_whitespace, for the characters of the model's alphabet
IsWhitespace(c) == c \in {" ", "\t", "\r", NL}

\* str::trim_start
RECURSIVE TrimStart(_)
TrimStart(s) ==
    IF s # <<>> /\ IsWhitespace(Head(s)) THEN TrimStart(Tail(s)) ELSE s

\* str::trim_end
RECURSIVE TrimEnd(_)
TrimEnd(s) ==
    IF s # <<>> /\ IsWhitespace(s[Len(s)])
    THEN TrimEnd(SubSeq(s, 1, Len(s) - 1))
    ELSE s

\* str::trim
Trim(s) == TrimEnd(TrimStart(s))

\* str::ends_with(pat)
EndsWith(s, pat) ==
    /\ Len(s) >= Len(pat)
    /\ SubSeq(s, Len(s) - Len(pat) + 1, Len(s)) = pat

\* str::trim_end_matches(c): every trailing c is removed
RECURSIVE TrimEndMatches(_, _)
TrimEndMatches(s, c) ==
    IF s # <<>> /\ s[Len(s)] = c
    THEN TrimEndMatches(SubSeq(s, 1, Len(s) - 1), c)
    ELSE s

\* str::replace(pat, ""): every non-overlapping occurrence, left to right
RECURSIVE RemoveAll(_, _)
RemoveAll(s, pat) ==
    IF Len(s) < Len(pat) THEN s
    ELSE IF SubSeq(s, 1, Len(pat)) = pat
         THEN RemoveAll(SubSeq(s, Len(pat) + 1, Len(s)), pat)
         ELSE <<Head(s)>> \o RemoveAll(Tail(s), pat)

\* the first whitespace-free token of s (s starts with a non-whitespace)
RECURSIVE TakeToken(_)
TakeToken(s) ==
    IF s = <<>> \/ IsWhitespace(Head(s)) THEN <<>>
    ELSE <<Head(s)>> \o TakeToken(Tail(s))

\* str::split_whitespace().collect()
RECURSIVE SplitWhitespace(_)
SplitWhitespace(s) ==
    LET t == TrimStart(s) IN
    IF t = <<>> THEN <<>>
    ELSE LET tok == TakeToken(t) IN
         <<tok>> \o SplitWhitespace(SubSeq(t, Len(tok) + 1, Len(t)))

\* str::split(c).next(): the text before the first c, all of s without one
RECURSIVE SplitFirst(_, _)
SplitFirst(s, c) ==
    IF s = <<>> \/ Head(s) = c THEN <<>>
    ELSE <<Head(s)>> \o SplitFirst(Tail(s), c)

Uppers == <<"A","B","C","D","E","F","G","H","I","J","K","L","M",
            "N","O","P","Q","R","S","T","U","V","W","X","Y","Z">>
Lowers == <<"a","b","c","d","e","f","g","h","i","j","k","l","m",
            "n","o","p","q","r","s","t","u","v","w","x","y","z">>

LowerChar(c) ==
    IF \E i \in 1..Len(Uppers) : Uppers[i] = c
    THEN Lowers[CHOOSE i \in 1..Len(Uppers) : Uppers[i] = c]
    ELSE c

\* str::to_lowercase
ToLowercase(s) == [i \in 1..Len(s) |-> LowerChar(s[i])]

\* str::lines(): the pieces ended by "\n", and what follows the last "\n" if
\* it is not empty; a trailing "\r" of a line is dropped
StripCr(line) ==
    IF line # <<>> /\ line[Len(line)] = "\r"
    THEN SubSeq(line, 1, Len(line) - 1) ELSE line

Lines(data) ==
    LET idx == [i \in 1..Len(data) |-> i]
        ends == SelectSeq(idx, LAMBDA i : data[i] = NL)
        from(k) == IF k = 1 THEN 1 ELSE ends[k - 1] + 1
        whole == [k \in 1..Len(ends) |->
                     StripCr(SubSeq(data, from(k), ends[k] - 1))]
        rest == SubSeq(data, from(Len(ends) + 1), Len(data))
    IN  IF rest = <<>> THEN whole ELSE Append(whole, StripCr(rest))

\* ------------------------------------------------------------- f32 values

Digits == <<"0","1","2","3","4","5","6","7","8","9">>
IsDigit(c) == \E i \in 1..10 : Digits[i] = c
DigitVal(c) == (CHOOSE i \in 1..10 : Digits[i] = c) - 1
AllDigits(s) == \A i \in 1..Len(s) : IsDigit(s[i])

RECURSIVE DecimalValue(_)
DecimalValue(s) ==
    IF s = <<>> THEN 0
    ELSE DecimalValue(SubSeq(s, 1, Len(s) - 1)) * 10 + DigitVal(s[Len(s)])

Finite(c) == [cls |-> "finite", centi |-> c]
Special(k) == [cls |-> k, centi |-> 0]

\* The hundredths of a fraction's digits (further digits are cut)
FractionCenti(f) ==
    DecimalValue(SubSeq(f \o <<"0", "0">>, 1, 2))

\* <f32 as FromStr>::from_str for an unsigned token: decimal digits with an
\* optional point, or inf / infinity / nan in any case.  (Exponents are
\* outside the alphabet of the model.)
ParseUnsigned(t) ==
    LET low == ToLowercase(t)
        int == SplitFirst(t, ".")
        frac == IF Len(int) < Len(t) THEN SubSeq(t, Len(int) + 2, Len(t))
                ELSE <<>>
    IN  IF low \in {<<"i","n","f">>, <<"i","n","f","i","n","i","t","y">>}
        THEN [ok |-> TRUE, val |-> Special("inf")]
        ELSE IF low = <<"n","a","n">>
        THEN [ok |-> TRUE, val |-> Special("nan")]
        ELSE IF AllDigits(int) /\ AllDigits(frac) /\ Len(int) + Len(frac) > 0
        THEN [ok |-> TRUE,
              val |-> Finite(DecimalValue(int) * 100 + FractionCenti(frac))]
        ELSE [ok |-> FALSE, val |-> Finite(0)]

Negate(v) ==
    IF v.cls = "finite" THEN Finite(0 - v.centi)
    ELSE IF v.cls = "inf" THEN Special("-inf")
    ELSE IF v.cls = "-inf" THEN Special("inf")
    ELSE v

\* str::parse::<f32>()
ParseF32(t) ==
    IF t # <<>> /\ Head(t) = "-"
    THEN LET r == ParseUnsigned(Tail(t)) IN
         [ok |-> r.ok, val |-> IF r.ok THEN Negate(r.val) ELSE r.val]
    ELSE IF t # <<>> /\ Head(t) = "+"
    THEN ParseUnsigned(Tail(t))
    ELSE ParseUnsigned(t)

IsFinite(v) == v.cls = "finite"

\* ------------------------------------------------- parse_lm_sensors_data

\* LmSensorsSensorType
SensorTypes == {"Temp", "Fan", "Voltage"}

\* struct LmSensorsSensor
LmSensorsSensor(n, v, t) == [name |-> n, value |-> v, sensor_type |-> t]

\* struct LmSensorsDevice
LmSensorsDevice(n, a, s) == [name |-> n, adapter |-> a, sensors |-> s]

\* faulty variant: 'fan' is looked for before 'temp'
parse_lm_sensors_sensor_type_fan_first(sensor_name) ==
    IF Contains(sensor_name, <<"f","a","n">>) THEN "Fan"
    ELSE IF Contains(sensor_name, <<"t","e","m","p">>) THEN "Temp"
    ELSE "Voltage"

\* parse_lm_sensors_sensor_type
parse_lm_sensors_sensor_type(sensor_name) ==
    IF Contains(sensor_name, <<"t","e","m","p">>) THEN "Temp"
    ELSE IF Contains(sensor_name, <<"f","a","n">>) THEN "Fan"
    ELSE "Voltage"

\* line.contains("-")
IsDeviceHeader(line) == Contains(line, <<"-">>)

\* .replace("Adapter: ", "")
AdapterLabel == <<"A","d","a","p","t","e","r",":"," ">>
StripAdapter(line) == RemoveAll(line, AdapterLabel)

\* sensor_line.trim().is_empty()
IsBlank(line) == Trim(line) = <<>>

\* sensor_line.trim().ends_with(":")
IsSensorName(line) == EndsWith(Trim(line), <<":">>)

\* sensor_line.trim().trim_end_matches(':')
SensorName(line) == TrimEndMatches(Trim(line), ":")

\* faulty variant: the value line is not looked at
HasInputUnchecked(line) == TRUE

\* value_line.contains("input")
HasInput(line) == Contains(line, <<"i","n","p","u","t">>)

\* value_line.trim_start().split_whitespace().collect()
ValueParts(line) == SplitWhitespace(TrimStart(line))

\* faulty variant: unwrap_or(f32::NAN)
SensorValueOrNan(token) ==
    LET r == ParseF32(token) IN IF r.ok THEN r.val ELSE Special("nan")

\* parts[1].parse().unwrap_or(0.0)
SensorValue(token) ==
    LET r == ParseF32(token) IN IF r.ok THEN r.val ELSE Finite(0)

\* The parser's state: the line iterator (lines, pos = lines consumed), the
\* loop it is in (at: "scan" the outer loop, "section" the inner loop, "done"
\* returned), the locals of the device being read, and the devices pushed.
\* roles is a history of the role each consumed line was read in.
ParserStart(data) ==
    [lines |-> Lines(data), pos |-> 0, at |-> "scan",
     devices |-> <<>>, device_name |-> <<>>, adapter |-> <<>>,
     sensors |-> <<>>, roles |-> <<>>]

HasNext(p) == p.pos < Len(p.lines)
Peek(p) == p.lines[p.pos + 1]
HasSecond(p) == p.pos + 1 < Len(p.lines)
PeekSecond(p) == p.lines[p.pos + 2]

\* outer `while let Some(line) = lines.next()`: the iterator is exhausted
AtEndOfInput(p) == p.at = "scan" /\ ~HasNext(p)
EndOfInputStep(p) == [p EXCEPT !.at = "done"]

\* outer loop, a line without "-": nothing is done with it
AtSkipLine(p) == p.at = "scan" /\ HasNext(p) /\ ~IsDeviceHeader(Peek(p))
SkipLineStep(p) ==
    [p EXCEPT !.pos = p.pos + 1, !.roles = Append(p.roles, "skipped")]

\* outer loop, a line with "-": the device name, and the next line (or "")
\* as the adapter
AtDeviceHeader(p) == p.at = "scan" /\ HasNext(p) /\ IsDeviceHeader(Peek(p))
DeviceHeaderStep(p) ==
    [p EXCEPT !.device_name = Peek(p),
              !.adapter = StripAdapter(IF HasSecond(p) THEN PeekSecond(p)
                                       ELSE <<>>),
              !.sensors = <<>>,
              !.pos = IF HasSecond(p) THEN p.pos + 2 ELSE p.pos + 1,
              !.roles = p.roles \o (IF HasSecond(p) THEN <<"header", "adapter">>
                                    ELSE <<"header">>),
              !.at = "section"]

\* devices.push(LmSensorsDevice { name, adapter, sensors })
PushDevice(p) ==
    Append(p.devices, LmSensorsDevice(p.device_name, p.adapter, p.sensors))

\* faulty variant: the device being read is dropped at the end of the input
SectionExhaustedNoPush(p) == [p EXCEPT !.at = "scan"]

\* faulty variant: a blank line does not end the section
SectionBreakContinues(p) ==
    [p EXCEPT !.pos = p.pos + 1, !.roles = Append(p.roles, "blank")]

\* inner `while let Some(sensor_line) = lines.next()`: exhausted
AtSectionExhausted(p) == p.at = "section" /\ ~HasNext(p)
SectionExhaustedStep(p) ==
    [p EXCEPT !.devices = PushDevice(p), !.at = "scan"]

\* inner loop, a blank line: break
AtSectionBreak(p) == p.at = "section" /\ HasNext(p) /\ IsBlank(Peek(p))
SectionBreakStep(p) ==
    [p EXCEPT !.devices = PushDevice(p), !.at = "scan",
              !.pos = p.pos + 1, !.roles = Append(p.roles, "blank")]

\* faulty variant: a line with "-" inside a section starts the next device
SectionOtherStartsDevice(p) ==
    IF IsDeviceHeader(Peek(p))
    THEN [p EXCEPT !.devices = PushDevice(p), !.device_name = Peek(p),
                   !.adapter = <<>>, !.sensors = <<>>,
                   !.pos = p.pos + 1, !.roles = Append(p.roles, "ignored")]
    ELSE [p EXCEPT !.pos = p.pos + 1, !.roles = Append(p.roles, "ignored")]

\* inner loop, a line that is neither blank nor a sensor name
AtSectionOther(p) ==
    /\ p.at = "section" /\ HasNext(p)
    /\ ~IsBlank(Peek(p)) /\ ~IsSensorName(Peek(p))
SectionOtherStep(p) ==
    [p EXCEPT !.pos = p.pos + 1, !.roles = Append(p.roles, "ignored")]

AtSensorName(p) ==
    /\ p.at = "section" /\ HasNext(p)
    /\ ~IsBlank(Peek(p)) /\ IsSensorName(Peek(p))

\* a sensor name on the last line: `if let Some(value_line)` fails
AtSensorNoValueLine(p) == AtSensorName(p) /\ ~HasSecond(p)
SensorNoValueLineStep(p) ==
    [p EXCEPT !.pos = p.pos + 1, !.roles = Append(p.roles, "name")]

\* the value line has no "input": continue
AtSensorNoInput(p) ==
    AtSensorName(p) /\ HasSecond(p) /\ ~HasInput(PeekSecond(p))
\* the value line has "input" and not exactly two parts
AtSensorBadParts(p) ==
    /\ AtSensorName(p) /\ HasSecond(p) /\ HasInput(PeekSecond(p))
    /\ Len(ValueParts(PeekSecond(p))) # 2
\* faulty variant: the value line is left in the iterator and read again
SensorDroppedRereads(p) ==
    [p EXCEPT !.pos = p.pos + 1, !.roles = p.roles \o <<"name", "dropped">>]

SensorDroppedStep(p) ==
    [p EXCEPT !.pos = p.pos + 2, !.roles = p.roles \o <<"name", "dropped">>]

\* the value line has "input" and two parts: sensors.push(...)
AtSensorPush(p) ==
    /\ AtSensorName(p) /\ HasSecond(p) /\ HasInput(PeekSecond(p))
    /\ Len(ValueParts(PeekSecond(p))) = 2
SensorPushStep(p) ==
    LET parts == ValueParts(PeekSecond(p)) IN
    [p EXCEPT !.sensors =
                  Append(p.sensors,
                         LmSensorsSensor(SensorName(Peek(p)),
                                         SensorValue(parts[2]),
                                         parse_lm_sensors_sensor_type(parts[1]))),
              !.pos = p.pos + 2,
              !.roles = p.roles \o <<"name", "value">>]

\* One step of the parser, whichever applies
ParserStep(p) ==
    CASE AtEndOfInput(p) -> EndOfInputStep(p)
      [] AtSkipLine(p) -> SkipLineStep(p)
      [] AtDeviceHeader(p) -> DeviceHeaderStep(p)
      [] AtSectionExhausted(p) -> SectionExhaustedStep(p)
      [] AtSectionBreak(p) -> SectionBreakStep(p)
      [] AtSectionOther(p) -> SectionOtherStep(p)
      [] AtSensorNoValueLine(p) -> SensorNoValueLineStep(p)
      [] AtSensorNoInput(p) -> SensorDroppedStep(p)
      [] AtSensorBadParts(p) -> SensorDroppedStep(p)
      [] AtSensorPush(p) -> SensorPushStep(p)

RECURSIVE RunParser(_)
RunParser(p) == IF p.at = "done" THEN p ELSE RunParser(ParserStep(p))

\* parse_lm_sensors_data(data)
parse_lm_sensors_data(data) == RunParser(ParserStart(data)).devices

\* -------------------------------------------------- format_friendly_names

\* faulty variant: the rules are matched on device_name as it is written
format_friendly_names_cased(device_name, sensor_name) ==
    LET x == device_name
        parent_name ==
            IF Contains(x, <<"w","i","f","i">>) THEN <<"W","i","f","i">>
            ELSE IF Contains(x, <<"g","p","u">>) THEN <<"G","p","u">>
            ELSE IF Contains(x, <<"n","v","i","d","i","a">>) THEN <<"G","p","u">>
            ELSE IF Contains(x, <<"i","t","8","6">>) THEN <<"M","B">>
            ELSE IF Contains(x, <<"k","1","0">>) THEN <<"C","P","U">>
            ELSE IF Contains(x, <<"k","r","a","k","e","n">>) THEN <<"A","I","O">>
            ELSE IF Contains(x, <<"n","v","m","e">>) THEN <<"N","v","m","e">>
            ELSE SplitFirst(device_name, "-")
    IN  parent_name \o <<":", " ">> \o sensor_name

\* format_friendly_names(device_name, sensor_name)
format_friendly_names(device_name, sensor_name) ==
    LET x == ToLowercase(device_name)
        parent_name ==
            IF Contains(x, <<"w","i","f","i">>) THEN <<"W","i","f","i">>
            ELSE IF Contains(x, <<"g","p","u">>) THEN <<"G","p","u">>
            ELSE IF Contains(x, <<"n","v","i","d","i","a">>) THEN <<"G","p","u">>
            ELSE IF Contains(x, <<"i","t","8","6">>) THEN <<"M","B">>
            ELSE IF Contains(x, <<"k","1","0">>) THEN <<"C","P","U">>
            ELSE IF Contains(x, <<"k","r","a","k","e","n">>) THEN <<"A","I","O">>
            ELSE IF Contains(x, <<"n","v","m","e">>) THEN <<"N","v","m","e">>
            ELSE SplitFirst(device_name, "-")
    IN  parent_name \o <<":", " ">> \o sensor_name

\* ------------------------------------------------------ convert_temp_unit

TemperatureTypes == {"Celsius", "Kelvin", "Fahrenheit"}

\* celsius + 273.15
convert_celsius_to_kelvin(celsius) ==
    IF IsFinite(celsius) THEN Finite(celsius.centi + 27315) ELSE celsius

\* (celsius * (9.0 / 5.0)) + 32.0
convert_celsius_to_fahrenheit(celsius) ==
    IF IsFinite(celsius) THEN Finite((celsius.centi * 9) \div 5 + 3200)
    ELSE celsius

\* faulty variant: the Kelvin and Fahrenheit arms are exchanged
convert_temp_unit_exchanged(self, temp_celsius) ==
    CASE self = "Celsius" -> temp_celsius
      [] self = "Kelvin" -> convert_celsius_to_fahrenheit(temp_celsius)
      [] self = "Fahrenheit" -> convert_celsius_to_kelvin(temp_celsius)

\* TemperatureType::convert_temp_unit
convert_temp_unit(self, temp_celsius) ==
    CASE self = "Celsius" -> temp_celsius
      [] self = "Kelvin" -> convert_celsius_to_kelvin(temp_celsius)
      [] self = "Fahrenheit" -> convert_celsius_to_fahrenheit(temp_celsius)

\* ----------------------------------------------- TemperatureType::from_str

\* " is an invalid temperature type, use one of: [kelvin, k, celsius, c,
\* fahrenheit, f]."
InvalidTypeText ==
    <<" ","i","s"," ","a","n"," ","i","n","v","a","l","i","d"," ","t","e",
      "m","p","e","r","a","t","u","r","e"," ","t","y","p","e",","," ","u",
      "s","e"," ","o","n","e"," ","o","f",":"," ","[","k","e","l","v","i",
      "n",","," ","k",","," ","c","e","l","s","i","u","s",","," ","c",",",
      " ","f","a","h","r","e","n","h","e","i","t",","," ","f","]",".">>

\* format!("'{s}' is an invalid temperature type, use one of: [...].")
InvalidTypeMessage(s) == <<"'">> \o s \o <<"'">> \o InvalidTypeText

FromStrOk(t) == [ok |-> TRUE, val |-> t, err |-> <<>>]
FromStrErr(s) ==
    [ok |-> FALSE, val |-> "Celsius", err |-> InvalidTypeMessage(s)]

\* faulty variant: the token is matched whatever its case
from_str_any_case(s) ==
    LET x == ToLowercase(s) IN
    IF x \in {<<"f","a","h","r","e","n","h","e","i","t">>, <<"f">>}
    THEN FromStrOk("Fahrenheit")
    ELSE IF x \in {<<"k","e","l","v","i","n">>, <<"k">>} THEN FromStrOk("Kelvin")
    ELSE IF x \in {<<"c","e","l","s","i","u","s">>, <<"c">>} THEN FromStrOk("Celsius")
    ELSE FromStrErr(s)

\* <TemperatureType as FromStr>::from_str
from_str(s) ==
    IF s \in {<<"f","a","h","r","e","n","h","e","i","t">>, <<"f">>}
    THEN FromStrOk("Fahrenheit")
    ELSE IF s \in {<<"k","e","l","v","i","n">>, <<"k">>} THEN FromStrOk("Kelvin")
    ELSE IF s \in {<<"c","e","l","s","i","u","s">>, <<"c">>} THEN FromStrOk("Celsius")
    ELSE FromStrErr(s)

\* ------------------------------------------------------------------ cfg_if

StrategyModules == {"lm_sensors", "linux", "sysinfo"}

SysinfoTargets == {"freebsd", "macos", "windows", "android", "ios"}

\* Each branch of cfg_if! is compiled when its condition holds and no
\* earlier branch's does.
CfgLmSensors(lmsensors, os) == lmsensors
\* faulty variant: a plain #[cfg(target_os = "linux")]
CfgLinuxPlain(lmsensors, os) == os = "linux"
CfgLinux(lmsensors, os) == ~lmsensors /\ os = "linux"
CfgSysinfo(lmsensors, os) ==
    ~lmsensors /\ os # "linux" /\ os \in SysinfoTargets

\* the strategy modules the build declares
SelectedModules(lmsensors, os) ==
    {m \in StrategyModules :
        \/ m = "lm_sensors" /\ CfgLmSensors(lmsensors, os)
        \/ m = "linux" /\ CfgLinux(lmsensors, os)
        \/ m = "sysinfo" /\ CfgSysinfo(lmsensors, os)}

\* ------------------------------------------------------------------ Filter

\* Option<Filter>: None, or a filter keeping the names in keep
NoFilter == [some |-> FALSE, keep |-> {}]
SomeFilter(names) == [some |-> TRUE, keep |-> names]

\* Filter::optional_should_keep(filter, name)
optional_should_keep(filter, name) == ~filter.some \/ name \in filter.keep

\* -------------------------------------------------- get_temperature_data

\* struct TempHarvest; temperature is Some(..) here
TempHarvest(n, t) == [name |-> n, temperature |-> [some |-> TRUE, val |-> t]]

\* faulty variant: the filter is asked about the display name
HarvestedByDisplayName(filter, sensor) ==
    /\ sensor.sensor_type = "Temp"
    /\ optional_should_keep(filter, <<"C","P","U",":"," ">> \o sensor.name)

\* `if let Temp = sensor.sensor_type { if optional_should_keep(..) {`
Harvested(filter, sensor) ==
    /\ sensor.sensor_type = "Temp"
    /\ optional_should_keep(filter, sensor.name)

\* device.sensors.iter().for_each(..): the records one device adds
RECURSIVE HarvestSensors(_, _, _, _)
HarvestSensors(temp_type, filter, device, sensors) ==
    IF sensors = <<>> THEN <<>>
    ELSE (IF Harvested(filter, Head(sensors))
          THEN <<TempHarvest(
                    format_friendly_names(device.name, Head(sensors).name),
                    convert_temp_unit(temp_type, Head(sensors).value))>>
          ELSE <<>>)
         \o HarvestSensors(temp_type, filter, device, Tail(sensors))

\* faulty variant: the records of a device go before those gathered so far
RECURSIVE HarvestDevicesPrepending(_, _, _)
HarvestDevicesPrepending(temp_type, filter, sensor_data) ==
    IF sensor_data = <<>> THEN <<>>
    ELSE HarvestDevicesPrepending(temp_type, filter, Tail(sensor_data))
         \o HarvestSensors(temp_type, filter, Head(sensor_data),
                           Head(sensor_data).sensors)

\* sensor_data.iter().for_each(..)
RECURSIVE HarvestDevices(_, _, _)
HarvestDevices(temp_type, filter, sensor_data) ==
    IF sensor_data = <<>> THEN <<>>
    ELSE HarvestSensors(temp_type, filter, Head(sensor_data),
                        Head(sensor_data).sensors)
         \o HarvestDevices(temp_type, filter, Tail(sensor_data))

\* String::from_utf8(val.stdout): fails on a byte that is no UTF-8
FromUtf8Ok(stdout) == \A i \in 1..Len(stdout) : stdout[i] # BadByte

\* "error".to_string()
ErrorSentinel == <<"e","r","r","o","r">>

\* ------------------------------------------------------------------ inputs

\* the target operating systems drawn (SysinfoTargets lists them all)
TargetOs == {"linux", "windows", "netbsd"}

\* lines of `sensors -u` output
HdrK10 == <<"k","1","0","t","e","m","p","-","p","c","i","-","0","0","c","3">>
HdrAcpi == <<"a","c","p","i","t","z","-","a","c","p","i","-","0">>
AdapterIsa == AdapterLabel \o <<"I","S","A"," ","a","d","a","p","t","e","r">>
NameTemp1 == <<"t","e","m","p","1",":">>
NameTemp2 == <<"t","e","m","p","2",":">>
NameFan1 == <<"f","a","n","1",":">>
ValTemp1 == <<" "," ","t","e","m","p","1","_","i","n","p","u","t"," ","4","5",".","0">>
ValTemp2 == <<" "," ","t","e","m","p","2","_","i","n","p","u","t"," ","i","n","f">>
ValFan1 == <<" "," ","f","a","n","1","_","i","n","p","u","t",":"," ","1","2","0","0",".","0","0","0">>
NameIn0 == <<"i","n","0",":">>
ValIn0 == <<" "," ","i","n","0","_","i","n","p","u","t"," ","1",".","2","5">>

Headers == {HdrK10, HdrAcpi}
AdapterLines == {AdapterIsa}
SensorEntries ==
    {<<NameTemp1, ValTemp1>>, <<NameTemp2, ValTemp2>>, <<NameFan1, ValFan1>>,
     <<NameIn0, ValIn0>>}
BlankLine == <<>>

\* k sensor entries, one after the other
RECURSIVE EntrySeqs(_)
EntrySeqs(k) ==
    IF k = 0 THEN {<<>>}
    ELSE {e \o r : e \in SensorEntries, r \in EntrySeqs(k - 1)}

\* the well-formed device blocks of exactly n lines
Blocks(n) ==
    IF n < 3 \/ n % 2 = 0 THEN {}
    ELSE {<<h, a>> \o es \o <<BlankLine>> :
            h \in Headers, a \in AdapterLines, es \in EntrySeqs((n - 3) \div 2)}

\* the sequences of well-formed blocks of at most n lines in all
RECURSIVE WellFormedLines(_)
WellFormedLines(n) ==
    {<<>>} \cup UNION {{b \o r : b \in Blocks(k), r \in WellFormedLines(n - k)} :
                         k \in 3..n}

RECURSIVE JoinLines(_)
JoinLines(ls) ==
    IF ls = <<>> THEN <<>> ELSE Head(ls) \o <<NL>> \o JoinLines(Tail(ls))

WellFormedOutputs == {JoinLines(ls) : ls \in WellFormedLines(MaxOutLines)}

\* outputs holding a byte that is no UTF-8
UndecodableOutputs ==
    {<<BadByte>>} \cup {JoinLines(b) \o <<BadByte, NL>> : b \in Blocks(3)}

\* what `sensors -u` may write to its standard output
ToolOutputs == WellFormedOutputs \cup UndecodableOutputs

\* lines of free-form parser input
LnHeader == <<"d","-","0">>
LnAdapter == AdapterLabel \o <<"I">>
LnName == <<"t","1",":">>
LnValue == <<" ","t","e","m","p","1","_","i","n","p","u","t"," ","4",".","5">>
LnNoInput == <<"t","e","m","p","1","_","m","a","x"," ","8","0",".","0">>
LnNotANumber == <<"t","e","m","p","1","_","i","n","p","u","t"," ","x">>
LnThreeParts == <<"i","n","0","_","i","n","p","u","t"," ","1"," ","2">>

LnSpaces == <<" ", " ">>

FreeLines ==
    {LnHeader, LnName, LnValue, BlankLine, LnSpaces, LnNoInput, LnNotANumber,
     LnThreeParts}

\* at most MaxLines free lines, at the start of the input or right after a
\* device header and its adapter line
FreeInputs ==
    {JoinLines(pre \o ls) :
        pre \in {<<>>, <<LnHeader, LnAdapter>>},
        ls \in UNION {[1..n -> FreeLines] : n \in 0..MaxLines}}

\* an adapter line with the label after other text, and a value line whose
\* first part holds 'fan' and 'temp'
LnLabelInside == <<"x", " ">> \o AdapterLabel \o <<"I">>
LnFanTemp == <<" ","f","a","n","1","_","t","e","m","p","_","i","n","p","u","t"," ","1">>

\* inputs of a shape `sensors -u` does not write: an adapter line with the
\* label inside, a sensor name with the value line of another sensor, and
\* two device blocks without a blank line between them
OddInputs ==
    {JoinLines(<<LnHeader, LnLabelInside>> \o ls) :
        ls \in {<<>>, <<LnName, LnValue>>}}
    \cup {JoinLines(<<LnHeader, LnAdapter, n, v>>) :
            n \in {NameTemp1, NameFan1, NameIn0},
            v \in {ValTemp1, ValFan1, ValIn0, LnFanTemp}}
    \cup {JoinLines(SubSeq(b, 1, Len(b) - 1) \o c) :
            b \in Blocks(5), c \in Blocks(5)}

\* the texts given to parse_lm_sensors_data
ParserInputs == FreeInputs \cup WellFormedOutputs \cup OddInputs

\* the names given to format_friendly_names: at most MaxParts parts each
NameParts ==
    {<<"i","w","l","W","i","F","i">>, <<"G","P","U">>,
     <<"n","v","i","d","i","a">>, <<"I","T","8","6">>, <<"k","1","0">>,
     <<"K","r","a","k","e","n">>, <<"n","v","m","e">>,
     <<"a","c","p","i","t","z">>, <<"-">>, <<"0">>}

RECURSIVE Concatenations(_)
Concatenations(n) ==
    IF n = 0 THEN {<<>>}
    ELSE LET shorter == Concatenations(n - 1) IN
         shorter \cup {a \o b : a \in shorter, b \in NameParts}

DeviceNames == Concatenations(MaxParts)
SensorNames == {<<>>, <<"t","e","m","p","1">>}

\* the filters a caller passes
FilterNames == {<<"t","e","m","p","1">>}
Filters == {NoFilter} \cup {SomeFilter(k) : k \in SUBSET FilterNames}

\* the unit tokens given to from_str
UnitTokens ==
    {<<"f","a","h","r","e","n","h","e","i","t">>,
     <<"f">>,
     <<"k","e","l","v","i","n">>,
     <<"k">>,
     <<"c","e","l","s","i","u","s">>,
     <<"c">>,
     <<"F">>,
     <<"K">>,
     <<"C">>,
     <<"F","a","h","r","e","n","h","e","i","t">>,
     <<"K","E","L","V","I","N">>,
     <<"C","e","l","s","i","u","s">>,
     <<"b","o","g","u","s">>,
     <<>>,
     <<" ","c">>,
     <<"k","e","l","v","i","n",","," ","k">>}

\* the Celsius temperatures converted, in hundredths: multiples of 0.05, for
\* which the hundredths of 9/5 of them are exact
CelsiusCentis == {-27315, -4000, -5, 0, 5, 3750, 10000}
CelsiusInputs ==
    {Finite(c) : c \in CelsiusCentis}
        \cup {Special("inf"), Special("-inf"), Special("nan")}

\* --------------------------------------------------------------------- state

VARIABLES
    lmsensors,      \* cfg(feature = "lmsensors")
    target_os,      \* cfg(target_os)
    modules,        \* the strategy modules cfg_if! declares
    pc,             \* where get_temperature_data is
    temp_type,      \* get_temperature_data's argument
    filter,         \* get_temperature_data's argument
    command,        \* the result of Command::new("sensors").arg("-u").output()
    output,         \* get_lm_sensor_data's `output`
    sensor_data,    \* get_temperature_data's `sensor_data`
    result,         \* what get_temperature_data returned
    parser,         \* parse_lm_sensors_data's iterator and locals
    data,           \* parse_lm_sensors_data's argument
    fmt,            \* a call of format_friendly_names: arguments and result
    unit            \* a unit token given to from_str, and its conversion

vars == <<lmsensors, target_os, modules, pc, temp_type, filter, command, output,
          sensor_data, result, parser, data, fmt, unit>>

build == <<lmsensors, target_os, modules>>
args == <<temp_type, filter>>

NoCommand == [ok |-> FALSE, status |-> 0, stdout |-> <<>>]
NoResult == [ok |-> FALSE, some |-> FALSE, records |-> <<>>]
ParserIdle == [ParserStart(<<>>) EXCEPT !.at = "idle"]
FmtIdle ==
    [device_name |-> <<>>, sensor_name |-> <<>>, out |-> <<>>, at |-> "idle"]
UnitIdle ==
    [s |-> <<>>, parsed |-> [ok |-> FALSE, val |-> "Celsius", err |-> <<>>],
     temp_celsius |-> Finite(0), converted |-> Finite(0), at |-> "idle"]

\* Ok(Some(temperatures))
OkSome(temperatures) == [ok |-> TRUE, some |-> TRUE, records |-> temperatures]

\* the build is configured; nothing has been called
Init ==
    /\ lmsensors \in BOOLEAN
    /\ target_os \in TargetOs
    /\ modules = SelectedModules(lmsensors, target_os)
    /\ pc = "idle"
    /\ temp_type = "Celsius"
    /\ filter = NoFilter
    /\ command = NoCommand
    /\ output = <<>>
    /\ sensor_data = <<>>
    /\ result = NoResult
    /\ parser = ParserIdle
    /\ data = <<>>
    /\ fmt = FmtIdle
    /\ unit = UnitIdle

\* get_temperature_data(temp_type, filter) is called; it is lm_sensors' when
\* that module is the one declared
Call ==
    /\ pc = "idle" /\ "lm_sensors" \in modules
    /\ temp_type' \in TemperatureTypes
    /\ filter' \in Filters
    /\ pc' = "get_lm_sensor_data"
    /\ UNCHANGED <<build, command, output, sensor_data, result, parser, data, fmt, unit>>

\* get_lm_sensor_data: `if cfg!(target_os = "windows") { return Vec::new() }`
WindowsReturn ==
    /\ pc = "get_lm_sensor_data" /\ target_os = "windows"
    /\ sensor_data' = <<>>
    /\ pc' = "collect"
    /\ UNCHANGED <<build, args, command, output, result, parser, data, fmt, unit>>

\* Command::new("sensors").arg("-u").output() is Err: no process was started
SpawnFails ==
    /\ pc = "get_lm_sensor_data" /\ target_os # "windows"
    /\ command' = NoCommand
    /\ pc' = "match_command"
    /\ UNCHANGED <<build, args, output, sensor_data, result, parser, data, fmt, unit>>

\* ... is Ok(val): the tool ran, wrote val.stdout and exited with val.status
SpawnRuns ==
    /\ pc = "get_lm_sensor_data" /\ target_os # "windows"
    /\ \E stdout \in ToolOutputs, status \in {0, 1} :
          command' = [ok |-> TRUE, status |-> status, stdout |-> stdout]
    /\ pc' = "match_command"
    /\ UNCHANGED <<build, args, output, sensor_data, result, parser, data, fmt, unit>>

\* `Err(_) => "error".to_string()`
MatchErr ==
    /\ pc = "match_command" /\ ~command.ok
    /\ output' = ErrorSentinel
    /\ pc' = "match_output"
    /\ UNCHANGED <<build, args, command, sensor_data, result, parser, data, fmt, unit>>

\* `Ok(val) => String::from_utf8(val.stdout).expect("error")`, decodable
MatchOk ==
    /\ pc = "match_command" /\ command.ok /\ FromUtf8Ok(command.stdout)
    /\ output' = command.stdout
    /\ pc' = "match_output"
    /\ UNCHANGED <<build, args, command, sensor_data, result, parser, data, fmt, unit>>

\* ... undecodable: expect panics
MatchOkPanics ==
    /\ pc = "match_command" /\ command.ok /\ ~FromUtf8Ok(command.stdout)
    /\ pc' = "panicked"
    /\ UNCHANGED <<build, args, command, output, sensor_data, result, parser,
                   data, fmt, unit>>

\* `match output == *"error" { true => Vec::new(),`
OutputIsError ==
    /\ pc = "match_output" /\ output = ErrorSentinel
    /\ sensor_data' = <<>>
    /\ pc' = "collect"
    /\ UNCHANGED <<build, args, command, output, result, parser, data, fmt, unit>>

\* `false => parse_lm_sensors_data(output.as_str()) }`
OutputIsParsed ==
    /\ pc = "match_output" /\ output # ErrorSentinel
    /\ data' = output
    /\ parser' = RunParser(ParserStart(output))
    /\ sensor_data' = parser'.devices
    /\ pc' = "collect"
    /\ UNCHANGED <<build, args, command, output, result, fmt, unit>>

\* the for_each loops and `Ok(Some(temperatures))`
CollectAndReturn ==
    /\ pc = "collect"
    /\ result' = OkSome(HarvestDevices(temp_type, filter, sensor_data))
    /\ pc' = "returned"
    /\ UNCHANGED <<build, args, command, output, sensor_data, parser, data, fmt, unit>>

Next ==
    \/ Call
    \/ WindowsReturn
    \/ SpawnFails
    \/ SpawnRuns
    \/ MatchErr
    \/ MatchOk
    \/ MatchOkPanics
    \/ OutputIsError
    \/ OutputIsParsed
    \/ CollectAndReturn

Spec == Init /\ [][Next]_vars

\* --------------------------------------- parse_lm_sensors_data on its own

call == <<pc, temp_type, filter, command, output, sensor_data, result>>

\* parse_lm_sensors_data(data) has run `let mut lines = data.lines()`
InitParse ==
    /\ lmsensors = TRUE
    /\ target_os = "linux"
    /\ modules = SelectedModules(lmsensors, target_os)
    /\ pc = "parse"
    /\ temp_type = "Celsius"
    /\ filter = NoFilter
    /\ command = NoCommand
    /\ output = <<>>
    /\ sensor_data = <<>>
    /\ result = NoResult
    /\ data \in ParserInputs
    /\ parser = ParserStart(data)
    /\ fmt = FmtIdle
    /\ unit = UnitIdle

ParserAction(enabled, next) ==
    /\ pc = "parse" /\ enabled
    /\ parser' = next
    /\ UNCHANGED <<build, call, data, fmt, unit>>

EndOfInput == ParserAction(AtEndOfInput(parser), EndOfInputStep(parser))
SkipLine == ParserAction(AtSkipLine(parser), SkipLineStep(parser))
DeviceHeader == ParserAction(AtDeviceHeader(parser), DeviceHeaderStep(parser))
SectionExhausted ==
    ParserAction(AtSectionExhausted(parser), SectionExhaustedStep(parser))
SectionBreak == ParserAction(AtSectionBreak(parser), SectionBreakStep(parser))
SectionOther == ParserAction(AtSectionOther(parser), SectionOtherStep(parser))
SensorNoValueLine ==
    ParserAction(AtSensorNoValueLine(parser), SensorNoValueLineStep(parser))
SensorNoInput ==
    ParserAction(AtSensorNoInput(parser), SensorDroppedStep(parser))
SensorBadParts ==
    ParserAction(AtSensorBadParts(parser), SensorDroppedStep(parser))
SensorPush == ParserAction(AtSensorPush(parser), SensorPushStep(parser))

NextParse ==
    \/ EndOfInput
    \/ SkipLine
    \/ DeviceHeader
    \/ SectionExhausted
    \/ SectionBreak
    \/ SectionOther
    \/ SensorNoValueLine
    \/ SensorNoInput
    \/ SensorBadParts
    \/ SensorPush

SpecParse == InitParse /\ [][NextParse]_vars

\* the texts of the call below: a device header, its adapter line and at
\* most MaxLines free lines (one blank line and one value line with a number
\* stand for the two of each), the tool's outputs and the odd inputs
CalledInputs ==
    {JoinLines(<<LnHeader, LnAdapter>> \o ls) :
        ls \in UNION {[1..n -> FreeLines \ {LnSpaces, LnNotANumber}] :
                         n \in 0..MaxLines}}
    \cup WellFormedOutputs \cup OddInputs

\* parse_lm_sensors_data is about to be called
InitParseCall ==
    /\ lmsensors = TRUE
    /\ target_os = "linux"
    /\ modules = SelectedModules(lmsensors, target_os)
    /\ pc = "parse_call"
    /\ temp_type = "Celsius"
    /\ filter = NoFilter
    /\ command = NoCommand
    /\ output = <<>>
    /\ sensor_data = <<>>
    /\ result = NoResult
    /\ data = <<>>
    /\ parser = ParserIdle
    /\ fmt = FmtIdle
    /\ unit = UnitIdle

\* parse_lm_sensors_data(data) is called: `let mut lines = data.lines()`
ParseCalled ==
    /\ pc = "parse_call"
    /\ data' \in CalledInputs
    /\ parser' = ParserStart(data')
    /\ pc' = "parse"
    /\ UNCHANGED <<build, temp_type, filter, command, output, sensor_data,
                   result, fmt, unit>>

NextParseCall ==
    \/ ParseCalled
    \/ NextParse

\* the parser has been called and has not returned: one of its steps can be
\* taken
ParserCanStep == pc = "parse" /\ parser.at # "done"

\* The parser is sequential code that runs on: once called, a loop iteration
\* that can be taken is taken.  This is WF_vars(NextParse), weak fairness of
\* the parser's steps, with ENABLED <<NextParse>>_vars written as the state
\* predicate ParserCanStep.
SpecParseFair ==
    /\ InitParseCall /\ [][NextParseCall]_vars
    /\ ([]<>~ParserCanStep \/ []<><<NextParse>>_vars)

\* --------------------------------------- format_friendly_names on its own

\* format_friendly_names(device_name, sensor_name) has been called
InitFormat ==
    /\ lmsensors = TRUE
    /\ target_os = "linux"
    /\ modules = SelectedModules(lmsensors, target_os)
    /\ pc = "format"
    /\ temp_type = "Celsius"
    /\ filter = NoFilter
    /\ command = NoCommand
    /\ output = <<>>
    /\ sensor_data = <<>>
    /\ result = NoResult
    /\ data = <<>>
    /\ parser = ParserIdle
    /\ \E d \in DeviceNames, n \in SensorNames :
          fmt = [device_name |-> d, sensor_name |-> n, out |-> <<>>,
                 at |-> "called"]
    /\ unit = UnitIdle

FormatReturns ==
    /\ pc = "format" /\ fmt.at = "called"
    /\ fmt' = [fmt EXCEPT !.out = format_friendly_names(fmt.device_name,
                                                        fmt.sensor_name),
                          !.at = "returned"]
    /\ UNCHANGED <<build, call, parser, data, unit>>

NextFormat == FormatReturns

SpecFormat == InitFormat /\ [][NextFormat]_vars

\* ----------------------------- from_str and convert_temp_unit on their own

\* a unit token and a Celsius temperature are at hand
InitUnits ==
    /\ lmsensors = TRUE
    /\ target_os = "linux"
    /\ modules = SelectedModules(lmsensors, target_os)
    /\ pc = "units"
    /\ temp_type = "Celsius"
    /\ filter = NoFilter
    /\ command = NoCommand
    /\ output = <<>>
    /\ sensor_data = <<>>
    /\ result = NoResult
    /\ data = <<>>
    /\ parser = ParserIdle
    /\ fmt = FmtIdle
    /\ \E s \in UnitTokens, c \in CelsiusInputs :
          unit = [UnitIdle EXCEPT !.s = s, !.temp_celsius = c, !.at = "called"]

\* TemperatureType::from_str(s) returns
FromStrReturns ==
    /\ pc = "units" /\ unit.at = "called"
    /\ unit' = [unit EXCEPT !.parsed = from_str(unit.s), !.at = "parsed"]
    /\ UNCHANGED <<build, call, parser, data, fmt>>

\* the unit parsed converts the temperature
ConvertReturns ==
    /\ pc = "units" /\ unit.at = "parsed" /\ unit.parsed.ok
    /\ unit' = [unit EXCEPT
                   !.converted = convert_temp_unit(unit.parsed.val,
                                                   unit.temp_celsius),
                   !.at = "converted"]
    /\ UNCHANGED <<build, call, parser, data, fmt>>

NextUnits ==
    \/ FromStrReturns
    \/ ConvertReturns

SpecUnits == InitUnits /\ [][NextUnits]_vars

\* ------------------------------------------------------------------ claims

Terminated == pc \in {"returned", "panicked"}

\* the tool's process was started and what it wrote is no UTF-8
Undecodable == command.ok /\ ~FromUtf8Ok(command.stdout)

\* every sensor of every device, in order, with its device's name
RECURSIVE AllSensors(_)
AllSensors(devices) ==
    IF devices = <<>> THEN <<>>
    ELSE [i \in 1..Len(Head(devices).sensors) |->
             [device |-> Head(devices).name, sensor |-> Head(devices).sensors[i]]]
         \o AllSensors(Tail(devices))

\* C1: get_temperature_data returns Ok(Some(records)) whatever the tool
\* invocation did, and Ok(Some(empty list)) when the spawn failed.
C1_AlwaysOkSome ==
    Terminated =>
        /\ pc = "returned"
        /\ result = OkSome(result.records)
        /\ (target_os # "windows" /\ ~command.ok => result.records = <<>>)

\* C2: when the tool ran and its output is no valid text, the parser is
\* not reached, the device list is empty and the call completes with an
\* empty result.
C2_UndecodableIsEmpty ==
    Undecodable /\ pc # "match_command" =>
        /\ pc \in {"match_output", "collect", "returned"}
        /\ parser = ParserIdle
        /\ sensor_data = <<>>
        /\ (pc = "returned" => result = OkSome(<<>>))

\* C3: the records returned are those of the sensors whose kind is Temp and
\* whose raw name the filter, if there is one, keeps: one record each, named
\* after the sensor; no Fan or Voltage sensor gives a record, and a filter
\* keeping no name gives no record.
C3_Contributes(e) ==
    /\ e.sensor.sensor_type = "Temp"
    /\ (filter.some => e.sensor.name \in filter.keep)

C3_TempAndKept ==
    pc = "returned" =>
        LET kept == SelectSeq(AllSensors(sensor_data), C3_Contributes) IN
        /\ result.ok /\ result.some
        /\ Len(result.records) = Len(kept)
        /\ \A i \in 1..Len(kept) :
              result.records[i].name =
                  format_friendly_names(kept[i].device, kept[i].sensor.name)
        /\ (filter.some /\ filter.keep = {} => result.records = <<>>)

\* C3 witness: a call with a filter that keeps a name has returned one
\* record although the tool reported Temp, Fan and Voltage sensors.
C3_Witness ==
    /\ pc = "returned" /\ filter.some /\ filter.keep # {}
    /\ Len(result.records) = 1
    /\ LET all == AllSensors(sensor_data) IN
       {all[i].sensor.sensor_type : i \in 1..Len(all)} = SensorTypes

\* C9: every record returned has a name that is not empty and a
\* temperature that, when present, is finite.
C9_NamedAndFinite ==
    pc = "returned" =>
        \A i \in 1..Len(result.records) :
            /\ result.records[i].name # <<>>
            /\ (result.records[i].temperature.some =>
                    IsFinite(result.records[i].temperature.val))

ParseDone == pc = "parse" /\ parser.at = "done"

\* how many of the first i consumed lines were read in role r
RoleRank(r, i) == Cardinality({j \in 1..i : parser.roles[j] = r})

StartsWith(s, pat) == Len(s) >= Len(pat) /\ SubSeq(s, 1, Len(pat)) = pat

\* C4: the blocks of an input, each ended by a blank line
C4_BlockEnds(lines) ==
    SelectSeq([i \in 1..Len(lines) |-> i], LAMBDA i : IsBlank(lines[i]))

C4_Block(lines, k) ==
    LET ends == C4_BlockEnds(lines) IN
    SubSeq(lines, IF k = 1 THEN 1 ELSE ends[k - 1] + 1, ends[k] - 1)

\* a '<name>:' line: a name that is not empty, is not padded with blanks
\* and has no colon at its end
C4_IsNameLine(line) ==
    /\ Len(line) >= 2 /\ line[Len(line)] = ":"
    /\ line[Len(line) - 1] # ":"
    /\ ~IsWhitespace(line[1]) /\ ~IsWhitespace(line[Len(line) - 1])

\* a '<token> <value>' line: two parts, 'input' in the first, a number next
C4_IsValueLine(line) ==
    LET parts == SplitWhitespace(line) IN
    /\ Len(parts) = 2
    /\ Contains(parts[1], <<"i","n","p","u","t">>)
    /\ ParseF32(parts[2]).ok

\* a well-formed block without its blank line: header, adapter, entries
C4_IsBlock(b) ==
    /\ Len(b) >= 2 /\ Len(b) % 2 = 0
    /\ Contains(b[1], <<"-">>)
    /\ StartsWith(b[2], AdapterLabel)
    /\ ~Contains(SubSeq(b[2], Len(AdapterLabel) + 1, Len(b[2])), AdapterLabel)
    /\ \A m \in 1..((Len(b) - 2) \div 2) :
          C4_IsNameLine(b[2 * m + 1]) /\ C4_IsValueLine(b[2 * m + 2])

C4_WellFormed(lines) ==
    /\ lines # <<>> => IsBlank(lines[Len(lines)])
    /\ \A k \in 1..Len(C4_BlockEnds(lines)) : C4_IsBlock(C4_Block(lines, k))

\* what the claim says a block gives
C4_Device(b) ==
    [name |-> b[1],
     adapter |-> SubSeq(b[2], Len(AdapterLabel) + 1, Len(b[2])),
     sensors |-> [m \in 1..((Len(b) - 2) \div 2) |->
                    [name |-> SubSeq(b[2 * m + 1], 1, Len(b[2 * m + 1]) - 1),
                     value |-> ParseF32(SplitWhitespace(b[2 * m + 2])[2]).val]]]

\* a parsed device without its sensors' kinds
C4_Parsed(d) ==
    [name |-> d.name, adapter |-> d.adapter,
     sensors |-> [m \in 1..Len(d.sensors) |->
                    [name |-> d.sensors[m].name, value |-> d.sensors[m].value]]]

\* C4: an input made of well-formed blocks gives one device per block, in
\* input order: the header line as name, the text after 'Adapter: ' as
\* adapter, and one sensor per '<name>:' line, in order, with that name and
\* the number parsed from the line after it.
C4_OneDevicePerBlock ==
    ParseDone /\ C4_WellFormed(parser.lines) =>
        /\ Len(parser.devices) = Len(C4_BlockEnds(parser.lines))
        /\ \A k \in 1..Len(parser.devices) :
              C4_Parsed(parser.devices[k]) = C4_Device(C4_Block(parser.lines, k))

\* C4 witness: two well-formed blocks with sensors were parsed.
C4_Witness ==
    /\ ParseDone /\ C4_WellFormed(parser.lines)
    /\ Len(parser.devices) = 2
    /\ \A k \in 1..2 : parser.devices[k].sensors # <<>>
    /\ parser.devices[1].name # parser.devices[2].name

\* a header line read as such, with a blank line right after it
C5_HeaderThenBlank(i) ==
    /\ parser.roles[i] = "header"
    /\ i < Len(parser.lines) /\ IsBlank(parser.lines[i + 1])

\* C5 as claimed: a header followed immediately by a blank line gives a
\* device without sensors, whatever comes after the blank line.
C5_BlankEndsDevice ==
    ParseDone =>
        \A i \in 1..Len(parser.lines) :
            C5_HeaderThenBlank(i) =>
                /\ RoleRank("header", i) <= Len(parser.devices)
                /\ parser.devices[RoleRank("header", i)].sensors = <<>>

\* C5 as amended: there is a device for every header; for a header followed
\* immediately by a blank line the adapter is that blank line, and the
\* device has no sensors when the input ends after the blank line or the
\* next line is blank too.
C5_BlankIsAdapter ==
    ParseDone =>
        /\ Len(parser.devices) = RoleRank("header", Len(parser.lines))
        /\ \A i \in 1..Len(parser.lines) :
              C5_HeaderThenBlank(i) =>
                  LET d == parser.devices[RoleRank("header", i)] IN
                  /\ d.name = parser.lines[i]
                  /\ d.adapter = parser.lines[i + 1]
                  /\ (i + 1 = Len(parser.lines) \/ IsBlank(parser.lines[i + 2])
                         => d.sensors = <<>>)

\* C5 witness: a header, a blank line and the end of the input gave a
\* device without sensors.
C5_Witness ==
    /\ ParseDone
    /\ \E i \in 1..Len(parser.lines) :
          /\ C5_HeaderThenBlank(i) /\ i + 1 = Len(parser.lines)
          /\ parser.devices[RoleRank("header", i)].sensors = <<>>

\* the line after line i has 'input' and two parts
C6_ValueFollows(i) ==
    /\ i < Len(parser.lines)
    /\ Contains(parser.lines[i + 1], <<"i","n","p","u","t">>)
    /\ Len(SplitWhitespace(parser.lines[i + 1])) = 2

\* C6: a sensor-name line of a device section gives a sensor exactly when
\* the line right after it has 'input' and two parts; the sensors of the
\* devices are those, in order, each named after its name line.
C6_RecordIffInputPair ==
    ParseDone =>
        LET all == AllSensors(parser.devices) IN
        /\ Len(parser.roles) = Len(parser.lines)
        /\ Len(all) = RoleRank("value", Len(parser.lines))
        /\ \A i \in 1..Len(parser.lines) :
              parser.roles[i] = "name" =>
                  /\ IsSensorName(parser.lines[i])
                  /\ C6_ValueFollows(i) <=>
                        (i < Len(parser.lines) /\ parser.roles[i + 1] = "value")
                  /\ C6_ValueFollows(i) =>
                        all[RoleRank("value", i + 1)].sensor.name =
                            SensorName(parser.lines[i])
        /\ \A i \in 1..Len(parser.lines) :
              parser.roles[i] = "value" => i > 1 /\ parser.roles[i - 1] = "name"

\* C6 witness: a sensor name was followed by a line without 'input' and then
\* by a line with 'input', and the device has no sensor.
C6_Witness ==
    /\ ParseDone
    /\ Len(parser.devices) = 1 /\ parser.devices[1].sensors = <<>>
    /\ \E i \in 1..Len(parser.lines) :
          /\ parser.roles[i] = "name"
          /\ i + 2 <= Len(parser.lines)
          /\ ~Contains(parser.lines[i + 1], <<"i","n","p","u","t">>)
          /\ C4_IsValueLine(parser.lines[i + 2])

\* a value line whose second part is no number
C7_Unparsable(i) ==
    /\ parser.roles[i] = "value"
    /\ ~ParseF32(SplitWhitespace(parser.lines[i])[2]).ok

\* the input with line i's second part made the number 7.5
C7_Repaired(i) ==
    JoinLines([parser.lines EXCEPT
                  ![i] = SplitWhitespace(parser.lines[i])[1]
                         \o <<" ", "7", ".", "5">>])

\* devices with every value 7.5 made 0.0
C7_Zeroed(devices) ==
    [k \in 1..Len(devices) |->
        [devices[k] EXCEPT !.sensors =
            [m \in 1..Len(devices[k].sensors) |->
                IF devices[k].sensors[m].value = Finite(750)
                THEN [devices[k].sensors[m] EXCEPT !.value = Finite(0)]
                ELSE devices[k].sensors[m]]]]

\* C7: a value line whose second part is no number still gives its sensor,
\* with value 0.0, and the parse gives what it gives with a number there,
\* but for that value.
C7_UnparsableIsZero ==
    ParseDone =>
        \A i \in 1..Len(parser.lines) :
            C7_Unparsable(i) =>
                LET all == AllSensors(parser.devices)
                    j == RoleRank("value", i)
                IN  /\ j <= Len(all)
                    /\ all[j].sensor.value = Finite(0)
                    /\ all[j].sensor.name = SensorName(parser.lines[i - 1])
                    /\ C7_Zeroed(parse_lm_sensors_data(C7_Repaired(i)))
                          = parser.devices

\* C7 witness: a sensor with an unparsable value was followed by another
\* sensor, and both were recorded.
C7_Witness ==
    /\ ParseDone
    /\ \E i \in 1..Len(parser.lines) :
          /\ C7_Unparsable(i)
          /\ \E k \in (i + 1)..Len(parser.lines) :
                parser.roles[k] = "value" /\ ~C7_Unparsable(k)
    /\ Len(AllSensors(parser.devices)) = 2

\* ------------------------------------------------------------ name claims

\* the rules of the claim, in its order
C8_Rules ==
    << [word |-> <<"w","i","f","i">>, label |-> <<"W","i","f","i">>],
       [word |-> <<"g","p","u">>, label |-> <<"G","p","u">>],
       [word |-> <<"n","v","i","d","i","a">>, label |-> <<"G","p","u">>],
       [word |-> <<"i","t","8","6">>, label |-> <<"M","B">>],
       [word |-> <<"k","1","0">>, label |-> <<"C","P","U">>],
       [word |-> <<"k","r","a","k","e","n">>, label |-> <<"A","I","O">>],
       [word |-> <<"n","v","m","e">>, label |-> <<"N","v","m","e">>] >>

\* name contains word, whatever the case of name's letters
C8_Has(name, word) ==
    \E k \in 0..(Len(name) - Len(word)) :
        \A j \in 1..Len(word) : LowerChar(name[k + j]) = word[j]

C8_Matching(name) == {r \in 1..Len(C8_Rules) : C8_Has(name, C8_Rules[r].word)}

\* the part of name before its first '-', all of name when it has none
C8_BeforeDash(name) ==
    LET dashes == {i \in 1..Len(name) : name[i] = "-"} IN
    IF dashes = {} THEN name
    ELSE SubSeq(name, 1, (CHOOSE i \in dashes : \A j \in dashes : i <= j) - 1)

C8_Label(name) ==
    LET m == C8_Matching(name) IN
    IF m = {} THEN C8_BeforeDash(name)
    ELSE C8_Rules[CHOOSE r \in m : \A q \in m : r <= q].label

\* C8: format_friendly_names returns '<label>: <sensor_name>', the label
\* being that of the first rule whose word device_name contains in any
\* case, or else the part of device_name before its first '-'.
C8_FirstRuleWins ==
    pc = "format" /\ fmt.at = "returned" =>
        fmt.out = C8_Label(fmt.device_name) \o <<":", " ">> \o fmt.sensor_name

\* C8 witness: a device name holding 'WiFi' and then 'nvme' was labelled
\* Wifi.
C8_Witness ==
    /\ pc = "format" /\ fmt.at = "returned"
    /\ C8_Matching(fmt.device_name) = {1, 7}
    /\ fmt.out = <<"W","i","f","i",":"," ">> \o fmt.sensor_name

\* ------------------------------------------------------------ unit claims

\* the tokens of the claim and the unit each names
C11_Accepted ==
    {[token |-> <<"f","a","h","r","e","n","h","e","i","t">>, type |-> "Fahrenheit"],
     [token |-> <<"f">>, type |-> "Fahrenheit"],
     [token |-> <<"k","e","l","v","i","n">>, type |-> "Kelvin"],
     [token |-> <<"k">>, type |-> "Kelvin"],
     [token |-> <<"c","e","l","s","i","u","s">>, type |-> "Celsius"],
     [token |-> <<"c">>, type |-> "Celsius"]}

\* the text between the last '[' and the last ']' of a message
C11_Bracketed(msg) ==
    LET opens == {i \in 1..Len(msg) : msg[i] = "["}
        closes == {i \in 1..Len(msg) : msg[i] = "]"}
        last(S) == CHOOSE i \in S : \A j \in S : j <= i
    IN  IF opens = {} \/ closes = {} THEN <<>>
        ELSE SubSeq(msg, last(opens) + 1, last(closes) - 1)

\* the items of a list written with ', ' between them
RECURSIVE C11_Items(_)
C11_Items(t) ==
    LET seps == {i \in 1..(Len(t) - 1) : t[i] = "," /\ t[i + 1] = " "} IN
    IF seps = {} THEN {t}
    ELSE LET i == CHOOSE k \in seps : \A j \in seps : k <= j IN
         {SubSeq(t, 1, i - 1)} \cup C11_Items(SubSeq(t, i + 2, Len(t)))

\* C11: from_str accepts exactly the tokens fahrenheit, f, kelvin, k,
\* celsius and c, as they are written, each giving its unit; every other
\* string gives an error whose message holds the string and lists the six
\* tokens.
C11_ExactTokens ==
    pc = "units" /\ unit.at # "called" =>
        LET named == {r \in C11_Accepted : r.token = unit.s} IN
        IF named # {}
        THEN /\ unit.parsed.ok
             /\ \A r \in named : unit.parsed.val = r.type
        ELSE /\ ~unit.parsed.ok
             /\ Contains(unit.parsed.err, unit.s)
             /\ C11_Items(C11_Bracketed(unit.parsed.err))
                   = {r.token : r \in C11_Accepted}

\* C11 witness: the token 'F' was rejected with a message.
C11_Witness ==
    /\ pc = "units" /\ unit.at = "parsed"
    /\ unit.s = <<"F">>
    /\ ~unit.parsed.ok /\ unit.parsed.err # <<>>

\* C12: convert_temp_unit gives a value for every unit and every input: the
\* input itself for Celsius, the input plus 273.15 for Kelvin, nine fifths
\* of the input plus 32 for Fahrenheit; 100 gives 373.15 and 212.
C12_Formulas ==
    /\ (pc = "units" /\ unit.at = "parsed" /\ unit.parsed.ok
           => unit.parsed.val \in TemperatureTypes)
    /\ (pc = "units" /\ unit.at = "converted" =>
           LET c == unit.temp_celsius
               r == unit.converted
               self == unit.parsed.val
           IN  /\ (self = "Celsius" => r = c)
               /\ (self = "Kelvin" /\ IsFinite(c) =>
                      IsFinite(r) /\ r.centi = c.centi + 27315)
               /\ (self = "Fahrenheit" /\ IsFinite(c) =>
                      IsFinite(r) /\ r.centi * 5 = c.centi * 9 + 16000)
               /\ (~IsFinite(c) => r = c)
               /\ (self = "Kelvin" /\ c = Finite(10000) => r = Finite(37315))
               /\ (self = "Fahrenheit" /\ c = Finite(10000)
                      => r = Finite(21200)))

\* C12 witness: 100 degrees Celsius was converted to 212 degrees Fahrenheit.
C12_Witness ==
    /\ pc = "units" /\ unit.at = "converted"
    /\ unit.parsed.val = "Fahrenheit"
    /\ unit.temp_celsius = Finite(10000)
    /\ unit.converted = Finite(21200)

\* --------------------------------------------------------- pipeline claims

\* C13: when the tool was started and exited with a status that is not
\* zero, get_lm_sensor_data gives no devices, whatever the tool wrote.
C13_NonZeroExitIsEmpty ==
    command.ok /\ command.status # 0 /\ pc \in {"collect", "returned"} =>
        sensor_data = <<>>

\* ------------------------------------------------- parser claims, continued

\* the last line before line b that was read as a device header
LastHeader(b) ==
    CHOOSE h \in 1..(b - 1) :
        /\ parser.roles[h] = "header"
        /\ \A j \in (h + 1)..(b - 1) : parser.roles[j] # "header"

\* the first blank line after the adapter line of the header at line h,
\* 0 when there is none
C14_FirstBlank(h) ==
    LET blanks == {b \in (h + 2)..Len(parser.lines) : IsBlank(parser.lines[b])}
    IN  IF blanks = {} THEN 0
        ELSE CHOOSE b \in blanks : \A j \in blanks : b <= j

\* the section of the header at line h has ended at line b: its device has
\* the sensors of the lines up to b and no other, and the line after b is
\* read by the scan for a header
C14_EndsAt(h, b) ==
    LET k == RoleRank("header", h) IN
    /\ k <= Len(parser.devices)
    /\ Len(parser.devices[k].sensors)
          = RoleRank("value", b) - RoleRank("value", h)
    /\ (b < Len(parser.lines) => parser.roles[b + 1] \in {"header", "skipped"})

\* C14 as claimed: the first blank line after the adapter line of a device
\* ends its section.
C14_FirstBlankEnds ==
    ParseDone =>
        \A h \in 1..Len(parser.lines) :
            parser.roles[h] = "header" /\ C14_FirstBlank(h) # 0 =>
                C14_EndsAt(h, C14_FirstBlank(h))

\* C14 as amended: a blank line read by the loop over a device's section
\* ends the section; a blank line after the adapter line is not read by
\* that loop exactly when it is the line right after a sensor-name line, and
\* then it is consumed as that sensor's value line and the section goes on.
C14_SectionBlankEnds ==
    ParseDone =>
        /\ \A b \in 1..Len(parser.lines) :
              parser.roles[b] = "blank" =>
                  /\ IsBlank(parser.lines[b])
                  /\ C14_EndsAt(LastHeader(b), b)
        /\ \A h \in 1..Len(parser.lines) :
              parser.roles[h] = "header" /\ C14_FirstBlank(h) # 0 =>
                  LET b == C14_FirstBlank(h) IN
                  IF parser.roles[b - 1] = "name"
                  THEN parser.roles[b] = "dropped"
                  ELSE parser.roles[b] = "blank" /\ LastHeader(b) = h

\* C14 witness: a blank line ended the section of a device with a sensor,
\* and a sensor read after it went to another device.
C14_Witness ==
    /\ ParseDone
    /\ \E b \in 1..Len(parser.lines) :
          /\ parser.roles[b] = "blank"
          /\ parser.devices[RoleRank("header", b)].sensors # <<>>
          /\ RoleRank("value", Len(parser.lines)) > RoleRank("value", b)

\* C15: the line right after a device header is consumed as the adapter,
\* whatever it holds; the adapter is that line without a leading
\* 'Adapter: ', a line without the leading label whole, and the empty string
\* when the header is the last line.
C15_LeadingLabelOnly ==
    ParseDone =>
        \A i \in 1..Len(parser.lines) :
            parser.roles[i] = "header" =>
                LET d == parser.devices[RoleRank("header", i)] IN
                IF i = Len(parser.lines) THEN d.adapter = <<>>
                ELSE /\ parser.roles[i + 1] = "adapter"
                     /\ d.adapter =
                           IF StartsWith(parser.lines[i + 1], AdapterLabel)
                           THEN SubSeq(parser.lines[i + 1],
                                       Len(AdapterLabel) + 1,
                                       Len(parser.lines[i + 1]))
                           ELSE parser.lines[i + 1]

\* the places of word in text
C16_Places(text, word) ==
    {k \in 1..Len(text) :
        /\ k + Len(word) - 1 <= Len(text)
        /\ \A j \in 1..Len(word) : text[k + j - 1] = word[j]}

\* the kind the claim gives a first token
C16_Kind(token) ==
    IF C16_Places(token, <<"t","e","m","p">>) # {} THEN "Temp"
    ELSE IF C16_Places(token, <<"f","a","n">>) # {} THEN "Fan"
    ELSE "Voltage"

\* C16: the kind of a sensor is decided by the first part of its value line
\* alone: Temp when it holds 'temp' (with 'fan' or without), else Fan when it
\* holds 'fan', else Voltage; the name line plays no part.
C16_KindFromFirstToken ==
    ParseDone =>
        LET all == AllSensors(parser.devices) IN
        \A i \in 1..Len(parser.lines) :
            parser.roles[i] = "value" =>
                all[RoleRank("value", i)].sensor.sensor_type
                    = C16_Kind(SplitWhitespace(parser.lines[i])[1])

\* C16 witness: a sensor named fan1 whose value line starts with
\* 'fan1_temp_input' is a Temp sensor.
C16_Witness ==
    /\ ParseDone
    /\ \E i \in 2..Len(parser.lines) :
          /\ parser.roles[i] = "value"
          /\ parser.lines[i] = LnFanTemp
          /\ parser.lines[i - 1] = NameFan1
          /\ AllSensors(parser.devices)[RoleRank("value", i)].sensor
                = LmSensorsSensor(<<"f","a","n","1">>, Finite(100), "Temp")

\* line i holds a '-'
C17_HasDash(i) == \E k \in 1..Len(parser.lines[i]) : parser.lines[i][k] = "-"

\* line i is read by the scan for a device header: it is the first line, or
\* the line before it was passed over by that scan or ended a section
C17_Scanned(i) == i = 1 \/ parser.roles[i - 1] \in {"skipped", "blank"}

\* C17: a line starts a device exactly when it holds '-' and is read by the
\* scan for a device header, and the device's name is that line as it is;
\* a line with '-' read as adapter, section line or value line starts none,
\* so an input that starts with a header and has no blank line before its
\* last line gives one device with all the sensors.
C17_HeaderOnlyWhenScanning ==
    /\ pc = "parse" /\ HasNext(parser) =>
          (parser.at = "scan" <=> C17_Scanned(parser.pos + 1))
    /\ ParseDone =>
          /\ Len(parser.devices) = RoleRank("header", Len(parser.lines))
          /\ \A i \in 1..Len(parser.lines) :
                /\ parser.roles[i] = "header"
                      <=> C17_HasDash(i) /\ C17_Scanned(i)
                /\ parser.roles[i] = "header" =>
                      parser.devices[RoleRank("header", i)].name
                          = parser.lines[i]
          /\ (/\ parser.lines # <<>> /\ C17_HasDash(1)
              /\ \A j \in 1..(Len(parser.lines) - 1) :
                    ~IsBlank(parser.lines[j]))
                => /\ Len(parser.devices) = 1
                   /\ Len(parser.devices[1].sensors)
                         = RoleRank("value", Len(parser.lines))

\* C17 witness: two device blocks without a blank line between them gave one
\* device with the sensors of both; the second header and its adapter line
\* were read as section lines.
C17_Witness ==
    /\ ParseDone
    /\ Len(parser.lines) = 9
    /\ C17_HasDash(1) /\ C17_HasDash(5)
    /\ StartsWith(parser.lines[6], AdapterLabel)
    /\ parser.roles = <<"header", "adapter", "name", "value", "ignored",
                        "ignored", "name", "value", "blank">>
    /\ Len(parser.devices) = 1
    /\ parser.devices[1].name = parser.lines[1]
    /\ Len(parser.devices[1].sensors) = 2

\* the tool's output was parsed by the call
C18_Parsed == pc = "returned" /\ parser.at = "done"

\* line i is the value line of a Temp sensor that the filter keeps
C18_Gives(i) ==
    /\ parser.roles[i] = "value"
    /\ C16_Kind(SplitWhitespace(parser.lines[i])[1]) = "Temp"
    /\ (filter.some => SensorName(parser.lines[i - 1]) \in filter.keep)

\* the lines that give a record, in the order of the tool's output
C18_Sources ==
    SelectSeq([i \in 1..Len(parser.lines) |-> i], C18_Gives)

\* C18: the records returned are in the order of the tool's output: the
\* j-th record is that of the j-th sensor-name line giving one, named after
\* the header line of its section and that name line; no record is there
\* twice or out of place, and there are no more records than sensor-name
\* lines.
C18_InputOrder ==
    /\ (pc = "returned" /\ parser.at # "done" => result.records = <<>>)
    /\ (C18_Parsed =>
           /\ Len(result.records) = Len(C18_Sources)
           /\ \A j \in 1..Len(C18_Sources) :
                 result.records[j].name =
                     format_friendly_names(
                         parser.lines[LastHeader(C18_Sources[j])],
                         SensorName(parser.lines[C18_Sources[j] - 1]))
           /\ Len(result.records)
                 <= Cardinality({i \in 1..Len(parser.lines) :
                                    EndsWith(Trim(parser.lines[i]), <<":">>)}))

\* C18 witness: two devices gave one record each, with different names, the
\* record of the first device first.
C18_Witness ==
    /\ C18_Parsed
    /\ Len(sensor_data) = 2
    /\ Len(result.records) = 2
    /\ result.records[1].name # result.records[2].name
    /\ LastHeader(C18_Sources[1]) < LastHeader(C18_Sources[2])

\* the roles of the claim: header, adapter, section line ("name", "ignored",
\* "blank"), value line ("value", "dropped") and skipped
C19_Roles ==
    {"header", "adapter", "name", "ignored", "blank", "value", "dropped",
     "skipped"}

\* how many of the parser's steps can be taken
C19_Ready ==
    Cardinality({k \in 1..10 :
        \/ k = 1 /\ AtEndOfInput(parser)
        \/ k = 2 /\ AtSkipLine(parser)
        \/ k = 3 /\ AtDeviceHeader(parser)
        \/ k = 4 /\ AtSectionExhausted(parser)
        \/ k = 5 /\ AtSectionBreak(parser)
        \/ k = 6 /\ AtSectionOther(parser)
        \/ k = 7 /\ AtSensorNoValueLine(parser)
        \/ k = 8 /\ AtSensorNoInput(parser)
        \/ k = 9 /\ AtSensorBadParts(parser)
        \/ k = 10 /\ AtSensorPush(parser)})

\* before it has ended the parser has one step to take, and no other; every
\* line consumed so far was consumed once, in one role, and at the end
\* all are consumed and there are no more devices than lines with '-'
C19_EachLineOnce ==
    pc = "parse" =>
        /\ (parser.at # "done" => C19_Ready = 1)
        /\ parser.pos <= Len(parser.lines)
        /\ Len(parser.roles) = parser.pos
        /\ \A i \in 1..Len(parser.roles) : parser.roles[i] \in C19_Roles
        /\ (parser.at = "done" =>
               /\ parser.pos = Len(parser.lines)
               /\ Len(parser.devices)
                     <= Cardinality({i \in 1..Len(parser.lines) :
                                        C17_HasDash(i)}))

\* a step consumes the next lines, or none and leaves the loop it is in; the
\* lines and the roles of the lines consumed before stay as they are
C19_Forward ==
    pc = "parse" =>
        /\ parser'.lines = parser.lines
        /\ parser'.pos \in {parser.pos, parser.pos + 1, parser.pos + 2}
        /\ (parser'.pos = parser.pos => parser'.at # parser.at)
        /\ SubSeq(parser'.roles, 1, Len(parser.roles)) = parser.roles
        /\ Len(parser'.devices) >= Len(parser.devices)

\* C19: parse_lm_sensors_data, once called, ends on every input without
\* failing: each line is consumed once, in one role (header, adapter,
\* section line, value line or skipped), none is read again or kept, and
\* there are no more devices than lines with '-'.
C19_TerminatesOncePerLine ==
    /\ []C19_EachLineOnce
    /\ [][C19_Forward]_vars
    /\ (pc = "parse" ~> ParseDone)

\* C19 witness: the parse of an input with a line in each role has ended.
C19_Witness ==
    /\ ParseDone
    /\ {"header", "adapter", "name", "value", "blank", "skipped"}
          \subseteq {parser.roles[i] : i \in 1..Len(parser.roles)}
    /\ Len(parser.devices) = 1

====
